---------------------------- MODULE Spec2Model ----------------------------
(***************************************************************************)
(* lab-bench: the merge-request aggregation and enrichment pipeline of     *)
(* src/src/api.rs.                                                         *)
(*                                                                         *)
(*   fetch_merge_requests                 one listing request per domain,  *)
(*                                        join_all, collect, flatten       *)
(*   fetch_merge_requests_with_full_data  one detail request per item,     *)
(*                                        join_all, keep-or-upgrade        *)
(*   client                               the OnceLock<Client> singleton   *)
(*   serde decoding of MergeRequest, Pipeline, State, MergeStatus,         *)
(*   PipelineStatus                                                        *)
(*                                                                         *)
(* and the Query button of src/src/main.rs, whose spawned task calls the   *)
(* two in turn and stores their results in merge_requests_result.          *)
(*                                                                         *)
(* The specifications share the definitions:                               *)
(*   Spec         the fan-outs: requests complete in any order, the remote *)
(*                answers each with any response of a small catalogue;     *)
(*   DecodeSpec   the decoders alone, applied to every wire payload of a   *)
(*                bounded product of field values;                         *)
(*   RequestSpec  the inputs of the page and the requests an aggregation   *)
(*                builds from them;                                        *)
(*   LiveSpec     the fan-outs when a request may never come back, with    *)
(*                fairness of the completions;                             *)
(*   CycleSpec    the tasks of several clicks of the Query button,         *)
(*                interleaved at their awaits.                             *)
(***************************************************************************)
EXTENDS Integers, Sequences, FiniteSets, TLC

VARIABLES
    phase,           \* where the fetch cycle of the Query handler is: see Phases
    domains,         \* `domains` argument of the fetch_merge_requests call in progress
    tasks,           \* the futures handed to join_all, in launch order
    merge_requests,  \* `merge_requests` argument of fetch_merge_requests_with_full_data
    aggregated,      \* value returned by fetch_merge_requests
    enriched,        \* value returned by fetch_merge_requests_with_full_data
    CLIENT,          \* static CLIENT: OnceLock<Client>
    built,           \* number of Client::new() calls so far
    overtaken,       \* history: some request completed while an earlier-launched one was in flight
    raw,             \* DecodeSpec: the wire payload under decoding
    decoded,         \* DecodeSpec: what the decoders made of it
    gitlab_url,      \* signal gitlab_url of the page
    private_token,   \* signal private_token of the page
    query,           \* signal query of the page
    handlers,        \* CycleSpec: the spawned tasks of the Query button, in click order
    merge_requests_result  \* signal merge_requests_result of the page

signals == <<gitlab_url, private_token, query>>
page == <<handlers, merge_requests_result>>

vars == <<phase, domains, tasks, merge_requests, aggregated, enriched,
          CLIENT, built, overtaken, raw, decoded, signals, page>>

-----------------------------------------------------------------------------
(* Bounds of the model.                                                    *)

MaxDomains == 2      \* longest domain list
MaxListLen == 2      \* longest listing a domain request returns
MaxItems == 3        \* longest list handed to enrichment

-----------------------------------------------------------------------------
(* JSON values on the wire.  A field of an object is absent (no key),      *)
(* null, or carries a value.                                               *)

JAbsent == [k |-> "absent", v |-> 0]
JNull == [k |-> "null", v |-> 0]
JInt(n) == [k |-> "int", v |-> n]

(* Option<T> as a sequence of at most one element. *)
None == <<>>
Some(x) == <<x>>

(* Result of a decoder: the value, or a decode error. *)
DecodeOk(x) == [ok |-> TRUE, val |-> <<x>>]
DecodeErr == [ok |-> FALSE, val |-> <<>>]

-----------------------------------------------------------------------------
(* The enumerations.  serde renames every variant to snake_case.           *)

(* enum State: Unknown is #[default] (the Default trait), not              *)
(* #[serde(other)]: the derived Deserialize knows the five names only.     *)
State ==
    [opened |-> "Opened", closed |-> "Closed", locked |-> "Locked",
     merged |-> "Merged", unknown |-> "Unknown"]

(* enum MergeStatus, with the alias of BlockedStatus. *)
MergeStatus ==
    [blocked_status |-> "BlockedStatus", merge_request_blocked |-> "BlockedStatus",
     checking |-> "Checking", unchecked |-> "Unchecked",
     ci_must_pass |-> "CiMustPass", ci_still_running |-> "CiStillRunning",
     discussions_not_resolved |-> "DiscussionsNotResolved",
     draft_status |-> "DraftStatus",
     external_status_checks |-> "ExternalStatusChecks",
     mergeable |-> "Mergeable", not_approved |-> "NotApproved",
     not_open |-> "NotOpen",
     jira_association_missing |-> "JiraAssociationMissing",
     need_rebase |-> "NeedRebase", conflict |-> "Conflict",
     requested_changes |-> "RequestedChanges", unknown |-> "Unknown"]

(* enum PipelineStatus. *)
PipelineStatus ==
    [created |-> "Created", waiting_for_resource |-> "WaitingForResource",
     preparing |-> "Preparing", pending |-> "Pending", running |-> "Running",
     success |-> "Success", failed |-> "Failed", canceled |-> "Canceled",
     skipped |-> "Skipped", manual |-> "Manual", scheduled |-> "Scheduled",
     unknown |-> "Unknown"]

(* Deserialize for State: a name that is no variant is the error           *)
(* "unknown variant".                                                      *)
deserialize_State(s) ==
    IF s \in DOMAIN State THEN DecodeOk(State[s]) ELSE DecodeErr

(* Deserialize for MergeStatus: #[serde(other)] sends every other name to  *)
(* Unknown.                                                                *)
deserialize_MergeStatus(s) ==
    IF s \in DOMAIN MergeStatus THEN DecodeOk(MergeStatus[s]) ELSE DecodeOk("Unknown")

(* Deserialize for PipelineStatus: #[serde(other)] as well. *)
deserialize_PipelineStatus(s) ==
    IF s \in DOMAIN PipelineStatus THEN DecodeOk(PipelineStatus[s])
    ELSE DecodeOk("Unknown")

-----------------------------------------------------------------------------
(* Pipeline.                                                               *)

(* The function named by deserialize_with: Option<i64>, then               *)
(* TimeDelta::seconds(seconds.unwrap_or_default()).  It is called with the *)
(* value of a key that is present.                                         *)
deserialize_time_delta_from_seconds_with_default(j) ==
    IF j.k = "null" THEN DecodeOk(0)
    ELSE IF j.k = "int" THEN DecodeOk(j.v)
    ELSE DecodeErr

(* A field with deserialize_with and no #[serde(default)]: the derive      *)
(* answers a missing key with the error "missing field" and never calls    *)
(* the function.                                                           *)
deserialize_duration_field(j) ==
    IF j.k = "absent" THEN DecodeErr
    ELSE deserialize_time_delta_from_seconds_with_default(j)

(* Deserialize for struct Pipeline (the fields the pipeline depends on;    *)
(* id, sha and web_url are plain required fields).                         *)
deserialize_Pipeline(w) ==
    LET status == deserialize_PipelineStatus(w.status)
        duration == deserialize_duration_field(w.duration)
        queued_duration == deserialize_duration_field(w.queued_duration)
    IN  IF status.ok /\ duration.ok /\ queued_duration.ok
        THEN DecodeOk([status |-> status.val[1],
                       duration |-> duration.val[1],
                       queued_duration |-> queued_duration.val[1]])
        ELSE DecodeErr

(* head_pipeline: Option<Pipeline>, a plain field: a missing key and null  *)
(* are both None.                                                          *)
deserialize_head_pipeline(j) ==
    IF j.k \in {"absent", "null"} THEN DecodeOk(None)
    ELSE LET p == deserialize_Pipeline(j.v[1])
         IN  IF p.ok THEN DecodeOk(Some(p.val[1])) ELSE DecodeErr

-----------------------------------------------------------------------------
(* MergeRequest.                                                           *)

(* Deserialize for struct MergeRequest, on the fields the pipeline reads:  *)
(* the identity pair (project_id, iid), the two enumerations, and the      *)
(* optional head pipeline.  Any field that fails makes the whole fail.     *)
deserialize_MergeRequest(w) ==
    LET state == deserialize_State(w.state)
        status == deserialize_MergeStatus(w.detailed_merge_status)
        head_pipeline == deserialize_head_pipeline(w.head_pipeline)
    IN  IF state.ok /\ status.ok /\ head_pipeline.ok
        THEN DecodeOk([project_id |-> w.project_id,
                       iid |-> w.iid,
                       state |-> state.val[1],
                       detailed_merge_status |-> status.val[1],
                       head_pipeline |-> head_pipeline.val[1]])
        ELSE DecodeErr

(* Deserialize for Vec<MergeRequest>: element by element, in order; the    *)
(* first element that fails fails the vector.                              *)
RECURSIVE deserialize_Vec(_)
deserialize_Vec(ws) ==
    IF ws = <<>> THEN DecodeOk(<<>>)
    ELSE LET head == deserialize_MergeRequest(Head(ws))
             rest == deserialize_Vec(Tail(ws))
         IN  IF head.ok /\ rest.ok
             THEN DecodeOk(<<head.val[1]>> \o rest.val[1])
             ELSE DecodeErr

-----------------------------------------------------------------------------
(* Transport: what a request can come back with.                           *)

(* A response: the transport failed (net = FALSE: send().await is Err), or *)
(* it delivered a status and a body.  A body is an array of objects, one   *)
(* object, or anything else ("garbage": not JSON, JSON of another shape,   *)
(* or a body whose read fails).                                            *)
Response(net, status, body) == [net |-> net, status |-> status, body |-> body]
Garbage == [kind |-> "garbage", items |-> <<>>]
Array(ws) == [kind |-> "array", items |-> ws]
Object(w) == [kind |-> "object", items |-> <<w>>]
NetworkFailure == Response(FALSE, 0, Garbage)
NoResponse == Response(FALSE, 0, [kind |-> "none", items |-> <<>>])

(* StatusCode::is_success: 200..=299. *)
is_success(status) == status >= 200 /\ status <= 299

(* Errors, as the anyhow::Error a fetch returns. *)
NoError == [kind |-> "none", code |-> 0]
Network == [kind |-> "Network", code |-> 0]
DecodeFailed == [kind |-> "Decode", code |-> 0]
BadStatus(code) == [kind |-> "BadStatus", code |-> code]

(* What one fetch came to: Ok(val) or Err(err); `parsed` records whether   *)
(* response.json() was called on the way.                                  *)
Ok(val, parsed) == [ok |-> TRUE, val |-> val, err |-> NoError, parsed |-> parsed]
Err(err, parsed) == [ok |-> FALSE, val |-> <<>>, err |-> err, parsed |-> parsed]
Pending == [ok |-> FALSE, val |-> <<>>, err |-> [kind |-> "pending", code |-> 0],
            parsed |-> FALSE]

(* response.json::<Vec<MergeRequest>>() *)
json_Vec(body) ==
    IF body.kind = "array" THEN deserialize_Vec(body.items) ELSE DecodeErr

(* response.json::<MergeRequest>() *)
json_MergeRequest(body) ==
    IF body.kind = "object" THEN deserialize_MergeRequest(body.items[1]) ELSE DecodeErr

(* Variant: the body is decoded before the status is looked at. *)
helper_parsing_first(resp) ==
    IF ~resp.net THEN Err(Network, FALSE)
    ELSE LET d == json_Vec(resp.body)
         IN  IF d.ok THEN Ok(d.val[1], TRUE)
             ELSE IF is_success(resp.status) THEN Err(DecodeFailed, TRUE)
             ELSE Err(BadStatus(resp.status), TRUE)

(* fetch_merge_requests_helper from `.send().await?` on: the value of the  *)
(* future once the request has come back with `resp`.                      *)
fetch_merge_requests_helper(resp) ==
    IF ~resp.net THEN Err(Network, FALSE)
    ELSE IF is_success(resp.status)
         THEN LET d == json_Vec(resp.body)
              IN  IF d.ok THEN Ok(d.val[1], TRUE) ELSE Err(DecodeFailed, TRUE)
         ELSE Err(BadStatus(resp.status), FALSE)

(* fetch_merge_request from `.send().await?` on.  Ok carries the one       *)
(* decoded merge request.                                                  *)
fetch_merge_request(resp) ==
    IF ~resp.net THEN Err(Network, FALSE)
    ELSE IF is_success(resp.status)
         THEN LET d == json_MergeRequest(resp.body)
              IN  IF d.ok THEN Ok(<<d.val[1]>>, TRUE) ELSE Err(DecodeFailed, TRUE)
         ELSE Err(BadStatus(resp.status), FALSE)

(* fetch_merge_request_no_fail: .ok().unwrap_or_else(|| merge_request.clone()) *)
fetch_merge_request_no_fail(merge_request, out) ==
    IF out.ok THEN out.val[1] ELSE merge_request

-----------------------------------------------------------------------------
(* Requests.                                                               *)

(* A user name or a project path is the sequence of its characters. *)
AuthorUsername(name) == [kind |-> "AuthorUsername", value |-> name]
ProjectPath(path) == [kind |-> "ProjectPath", value |-> path]

(* What the page starts with. *)
initial_gitlab_url == "https://gitlab.com/api/v4"
initial_private_token == ""
initial_query ==
    [created_after |-> None, created_before |-> None, order_by |-> "CreatedAt",
     scope |-> "All", sort |-> "Desc", state |-> None,
     updated_after |-> None, updated_before |-> None, wip |-> None]

(* #[serde(rename_all = "snake_case")] on the enums of the query. *)
snake_case ==
    [CreatedAt |-> "created_at", UpdatedAt |-> "updated_at", Title |-> "title",
     Asc |-> "asc", Desc |-> "desc",
     CreatedByMe |-> "created_by_me", AssignedToMe |-> "assigned_to_me", All |-> "all",
     Opened |-> "opened", Closed |-> "closed", Locked |-> "locked",
     Merged |-> "merged", Unknown |-> "unknown",
     Yes |-> "yes", No |-> "no"]

(* One field of the query as URL parameters: a None field is left out. *)
serialize_option(name, field) ==
    IF field = None THEN <<>> ELSE <<<<name, snake_case[field[1]]>>>>

(* .query(&query): the fields of MergeRequestsQuery in declaration order. *)
serialize_query(q) ==
    serialize_option("created_after", q.created_after)
    \o serialize_option("created_before", q.created_before)
    \o <<<<"order_by", snake_case[q.order_by]>>>>
    \o <<<<"scope", snake_case[q.scope]>>>>
    \o <<<<"sort", snake_case[q.sort]>>>>
    \o serialize_option("state", q.state)
    \o serialize_option("updated_after", q.updated_after)
    \o serialize_option("updated_before", q.updated_before)
    \o serialize_option("wip", q.wip)

(* ASCII. *)
Alphanumeric ==
    {"a", "b", "c", "d", "e", "f", "g", "h", "i", "j", "k", "l", "m",
     "n", "o", "p", "q", "r", "s", "t", "u", "v", "w", "x", "y", "z",
     "A", "B", "C", "D", "E", "F", "G", "H", "I", "J", "K", "L", "M",
     "N", "O", "P", "Q", "R", "S", "T", "U", "V", "W", "X", "Y", "Z",
     "0", "1", "2", "3", "4", "5", "6", "7", "8", "9"}
Byte ==
    ("%" :> 37) @@ ("-" :> 45) @@ ("." :> 46) @@ ("/" :> 47) @@ ("_" :> 95)
Hex == <<"0", "1", "2", "3", "4", "5", "6", "7",
         "8", "9", "A", "B", "C", "D", "E", "F">>

(* Variant: an encode set that leaves the path separator alone. *)
RECURSIVE percent_encode_keeping_slash(_)
percent_encode_keeping_slash(cs) ==
    IF cs = <<>> THEN <<>>
    ELSE (IF Head(cs) \in Alphanumeric \cup {"/"}
          THEN <<Head(cs)>>
          ELSE <<"%", Hex[(Byte[Head(cs)] \div 16) + 1], Hex[(Byte[Head(cs)] % 16) + 1]>>)
         \o percent_encode_keeping_slash(Tail(cs))

(* utf8_percent_encode(project_path, NON_ALPHANUMERIC).to_string(): every  *)
(* byte that is not an ASCII letter or digit becomes %XX, upper-case hex.  *)
RECURSIVE percent_encode(_)
percent_encode(cs) ==
    IF cs = <<>> THEN <<>>
    ELSE (IF Head(cs) \in Alphanumeric
          THEN <<Head(cs)>>
          ELSE <<"%", Hex[(Byte[Head(cs)] \div 16) + 1], Hex[(Byte[Head(cs)] % 16) + 1]>>)
         \o percent_encode(Tail(cs))

(* The listing request of a domain, as built before .send(): the URL is    *)
(* format!("{gitlab_url}/merge_requests") or                               *)
(* format!("{gitlab_url}/projects/{project_path}/merge_requests"), kept as *)
(* the pieces the format string joins; `endpoint` names the route and      *)
(* `key` what addresses it.                                                *)
listing_request(url, token, q, domain) ==
    IF domain.kind = "AuthorUsername"
    THEN [endpoint |-> "merge_requests", key |-> <<domain.value>>,
          method |-> "GET",
          url |-> [base |-> url, prefix |-> "/merge_requests",
                   segment |-> <<>>, suffix |-> ""],
          author_username |-> Some(domain.value),
          query |-> serialize_query(q),
          headers |-> {<<"PRIVATE-TOKEN", token>>}]
    ELSE [endpoint |-> "projects/merge_requests", key |-> <<domain.value>>,
          method |-> "GET",
          url |-> [base |-> url, prefix |-> "/projects/",
                   segment |-> percent_encode(domain.value),
                   suffix |-> "/merge_requests"],
          author_username |-> None,
          query |-> serialize_query(q),
          headers |-> {<<"PRIVATE-TOKEN", token>>}]

(* Variant: the two path parameters in the other order. *)
detail_request_swapped(merge_request) ==
    [endpoint |-> "projects/merge_requests/iid",
     key |-> <<merge_request.iid, merge_request.project_id>>]

(* The detail request of an item:                                          *)
(* {gitlab_url}/projects/{project_id}/merge_requests/{merge_request_iid}   *)
detail_request(merge_request) ==
    [endpoint |-> "projects/merge_requests/iid",
     key |-> <<merge_request.project_id, merge_request.iid>>]

(* Variant: no OnceLock, a Client::new() per call. *)
client_always_new(cell, n) ==
    [client |-> n + 1, cell |-> Some(n + 1), built |-> n + 1]

(* client(): CLIENT.get_or_init(|| Client::new()).  `cell` is the          *)
(* OnceLock (None, or Some(instance)), `n` the instances built so far;     *)
(* instances are numbered in the order they are built.                     *)
client(cell, n) ==
    IF cell = None
    THEN [client |-> n + 1, cell |-> Some(n + 1), built |-> n + 1]
    ELSE [client |-> cell[1], cell |-> cell, built |-> n]

(* The first poll of join_all: every future runs, in order, up to its      *)
(* `.send().await`, which takes the client and puts the request in flight. *)
RECURSIVE launch(_, _, _)
launch(reqs, cell, n) ==
    IF reqs = <<>> THEN [tasks |-> <<>>, cell |-> cell, built |-> n]
    ELSE LET c == client(cell, n)
             rest == launch(Tail(reqs), c.cell, c.built)
         IN  [tasks |-> <<[pc |-> "sent", client |-> c.client, req |-> Head(reqs),
                           sends |-> 1,
                           resp |-> NoResponse, out |-> Pending]>> \o rest.tasks,
              cell |-> rest.cell, built |-> rest.built]

(* Variant: a future whose fetch failed sends its request again. *)
completed_retrying(task, resp, out) ==
    IF out.ok
    THEN [task EXCEPT !.pc = "done", !.resp = resp, !.out = out]
    ELSE [task EXCEPT !.sends = @ + 1]

(* A future resumes from `.send().await` with `resp` and runs to its       *)
(* return with `out`; it sent its request once and is not polled again.    *)
completed(task, resp, out) ==
    [task EXCEPT !.pc = "done", !.resp = resp, !.out = out]

(* Variant: try_join_all, ready at the first Err. *)
try_join_all_ready(ts) ==
    \/ \A i \in DOMAIN ts : ts[i].pc = "done"
    \/ \E i \in DOMAIN ts : ts[i].pc = "done" /\ ~ts[i].out.ok

(* Variant: the fan-out gives up on a request that does not come back. *)
join_all_ready_or_timed_out(ts) == \A i \in DOMAIN ts : ts[i].pc \in {"done", "hung"}

(* join_all: ready when every future is Done; its output is the vector of  *)
(* the futures' outputs in the order of the futures.                       *)
join_all_ready(ts) == \A i \in DOMAIN ts : ts[i].pc = "done"
join_all_output(ts) == [i \in DOMAIN ts |-> ts[i].out]

-----------------------------------------------------------------------------
(* The two results.                                                        *)

Return(val) == [ok |-> TRUE, val |-> val, err |-> NoError]
Fail(err) == [ok |-> FALSE, val |-> <<>>, err |-> err]
NotReturned == [ok |-> FALSE, val |-> <<>>, err |-> [kind |-> "pending", code |-> 0]]

(* Variant: .into_iter().filter_map(Result::ok).collect() *)
RECURSIVE collect_skipping_errors(_)
collect_skipping_errors(outs) ==
    IF outs = <<>> THEN Return(<<>>)
    ELSE LET rest == collect_skipping_errors(Tail(outs))
         IN  IF Head(outs).ok THEN Return(<<Head(outs).val>> \o rest.val) ELSE rest

(* Variant: the last Err met in order wins. *)
RECURSIVE collect_last_error(_)
collect_last_error(outs) ==
    IF outs = <<>> THEN Return(<<>>)
    ELSE LET rest == collect_last_error(Tail(outs))
         IN  IF ~rest.ok THEN rest
             ELSE IF ~Head(outs).ok THEN Fail(Head(outs).err)
             ELSE Return(<<Head(outs).val>> \o rest.val)

(* .into_iter().collect::<Result<Vec<_>>>(): the values in order, or the   *)
(* first Err met in order.                                                 *)
RECURSIVE collect(_)
collect(outs) ==
    IF outs = <<>> THEN Return(<<>>)
    ELSE IF ~Head(outs).ok THEN Fail(Head(outs).err)
    ELSE LET rest == collect(Tail(outs))
         IN  IF rest.ok THEN Return(<<Head(outs).val>> \o rest.val) ELSE rest

(* Variant: the per-domain lists joined last to first. *)
RECURSIVE flatten_reversed(_)
flatten_reversed(lists) ==
    IF lists = <<>> THEN <<>> ELSE flatten_reversed(Tail(lists)) \o Head(lists)

(* .into_iter().flatten().collect() *)
RECURSIVE flatten(_)
flatten(lists) ==
    IF lists = <<>> THEN <<>> ELSE Head(lists) \o flatten(Tail(lists))

(* fetch_merge_requests after join_all:                                    *)
(* Ok(results.into_iter().collect::<Result<Vec<_>>>()?                     *)
(*        .into_iter().flatten().collect())                                *)
fetch_merge_requests(results) ==
    LET collected == collect(results)
    IN  IF collected.ok THEN Return(flatten(collected.val)) ELSE collected

(* Variant: the items whose detail request failed are left out. *)
RECURSIVE fetch_full_data_filtering(_, _)
fetch_full_data_filtering(inputs, results) ==
    IF results = <<>> THEN Return(<<>>)
    ELSE LET rest == fetch_full_data_filtering(Tail(inputs), Tail(results))
         IN  IF Head(results).ok
             THEN Return(<<Head(results).val[1]>> \o rest.val)
             ELSE rest

(* Variant: the first per-item error is returned, as in aggregation. *)
fetch_full_data_propagating(inputs, results) ==
    IF \E i \in DOMAIN results : ~results[i].ok
    THEN Fail(results[CHOOSE i \in DOMAIN results : ~results[i].ok].err)
    ELSE Return([i \in DOMAIN inputs |-> results[i].val[1]])

(* fetch_merge_requests_with_full_data after join_all: every future is a   *)
(* fetch_merge_request_no_fail, and the vector is returned in Ok.          *)
fetch_merge_requests_with_full_data(inputs, results) ==
    Return([i \in DOMAIN inputs |-> fetch_merge_request_no_fail(inputs[i], results[i])])

-----------------------------------------------------------------------------
(* What the remote can send.                                               *)

(* head_pipeline on the wire: no key, null, or a pipeline object. *)
NoPipelineKey == [k |-> "absent", v |-> <<>>]
NullPipeline == [k |-> "null", v |-> <<>>]
PipelineObject(p) == [k |-> "obj", v |-> <<p>>]

WirePipeline(status, duration, queued_duration) ==
    [status |-> status, duration |-> duration, queued_duration |-> queued_duration]

WireMergeRequest(project_id, iid, state, status, head_pipeline) ==
    [project_id |-> project_id, iid |-> iid, state |-> state,
     detailed_merge_status |-> status, head_pipeline |-> head_pipeline]

(* A listing item: the summary form, without head_pipeline. *)
Summary(project_id, iid) ==
    WireMergeRequest(project_id, iid, "opened", "mergeable", NoPipelineKey)

(* A detail: the full form, with the head pipeline. *)
Detail(project_id, iid) ==
    WireMergeRequest(project_id, iid, "opened", "mergeable",
                     PipelineObject(WirePipeline("success", JInt(5), JNull)))

(* The merge requests of the remote: two of one project. *)
Identities == {<<1, 1>>, <<1, 2>>}
ListingItems == {Summary(id[1], id[2]) : id \in Identities}
DetailItems == {Detail(id[1], id[2]) : id \in Identities}

SeqsUpTo(S, n) == UNION {[1..m -> S] : m \in 0..n}

Statuses == {200, 404}

(* Every response to a listing request: a transport failure, a success    *)
(* status with any body, or an error status whose body is an error page or *)
(* a well-formed listing.                                                  *)
ListingBodies == {Array(ws) : ws \in SeqsUpTo(ListingItems, MaxListLen)} \cup {Garbage}
ListingErrorBodies == {Garbage, Array(<<Summary(1, 1)>>)}
ListingResponses ==
    {NetworkFailure}
    \cup {Response(TRUE, st, b) : st \in {x \in Statuses : is_success(x)}, b \in ListingBodies}
    \cup {Response(TRUE, st, b) :
            st \in {x \in Statuses : ~is_success(x)}, b \in ListingErrorBodies}

(* Every response to a detail request.  The remote is not assumed to       *)
(* answer with the merge request that was asked for.                       *)
DetailBodies == {Object(w) : w \in DetailItems} \cup {Garbage}
DetailErrorBodies == {Garbage, Object(Detail(1, 1))}
DetailResponses ==
    {NetworkFailure}
    \cup {Response(TRUE, st, b) : st \in {x \in Statuses : is_success(x)}, b \in DetailBodies}
    \cup {Response(TRUE, st, b) :
            st \in {x \in Statuses : ~is_success(x)}, b \in DetailErrorBodies}

(* The domain lists the caller builds: the author domains, then the       *)
(* project domains; a name typed twice is there twice.                     *)
AuthorDomains == {AuthorUsername(<<"a", "l", "i", "c", "e">>)}
ProjectDomains == {ProjectPath(<<"g", "r", "p", "/", "a", "p", "p">>)}
Domains == AuthorDomains \cup ProjectDomains
DomainLists ==
    {authors \o projects :
        authors \in SeqsUpTo(AuthorDomains, MaxDomains),
        projects \in SeqsUpTo(ProjectDomains, MaxDomains)}
    \cap SeqsUpTo(Domains, MaxDomains)

(* DecodeSpec: every merge request payload over these field values. *)
WireStates == {"opened", "merged", "unknown", "draft"}
WireMergeStatuses == {"mergeable", "merge_request_blocked", "unknown", "approvals_syncing"}
WirePipelineStatuses == {"success", "unknown", "waiting_for_callback"}
WireDurations == {JAbsent, JNull, JInt(5)}
WirePipelines ==
    {WirePipeline(st, d, q) :
        st \in WirePipelineStatuses, d \in WireDurations, q \in WireDurations}
WireHeadPipelines ==
    {NoPipelineKey, NullPipeline} \cup {PipelineObject(p) : p \in WirePipelines}
WireMergeRequests ==
    {WireMergeRequest(1, 1, s, m, h) :
        s \in WireStates, m \in WireMergeStatuses, h \in WireHeadPipelines}

NotDecoded == [stage |-> "raw", out |-> Pending]

(* e.to_string(): the Display text of the error; the status of            *)
(* anyhow!("fetching merge requests failed with status {}", ..) is part of *)
(* the text.                                                               *)
to_string(err) ==
    IF err.kind = "BadStatus"
    THEN <<"fetching merge requests failed with status", err.code>>
    ELSE IF err.kind = "Network" THEN <<"error sending request">>
    ELSE <<"error decoding response body">>

(* Result<Vec<MergeRequest>, String>, the type of merge_requests_result. *)
StoredOk(val) == [ok |-> TRUE, val |-> val, message |-> <<>>]
StoredErr(message) == [ok |-> FALSE, val |-> <<>>, message |-> message]

(* .map_err(|e| e.to_string()) *)
map_err_to_string(result) ==
    IF result.ok THEN StoredOk(result.val) ELSE StoredErr(to_string(result.err))

(* use_signal(|| Ok::<_, String>(Vec::new())) *)
initial_merge_requests_result == StoredOk(<<>>)

-----------------------------------------------------------------------------
(* The fan-outs.                                                           *)

Phases == {"idle", "aggregating", "aggregated", "enriching", "enriched"}

Init ==
    /\ phase = "idle"
    /\ domains = <<>>
    /\ tasks = <<>>
    /\ merge_requests = <<>>
    /\ aggregated = NotReturned
    /\ enriched = NotReturned
    /\ CLIENT = None
    /\ built = 0
    /\ overtaken = FALSE
    /\ raw = Summary(1, 1)
    /\ decoded = NotDecoded
    /\ gitlab_url = initial_gitlab_url
    /\ private_token = initial_private_token
    /\ query = initial_query
    /\ handlers = <<>>
    /\ merge_requests_result = initial_merge_requests_result

(* The Query handler calls fetch_merge_requests(.., &domains): the futures *)
(* are built in domain order and join_all polls them for the first time.   *)
CallFetchMergeRequests(ds) ==
    /\ phase = "idle"
    /\ LET l == launch([i \in DOMAIN ds |-> listing_request(gitlab_url, private_token, query, ds[i])], CLIENT, built)
       IN  /\ tasks' = l.tasks
           /\ CLIENT' = l.cell
           /\ built' = l.built
    /\ phase' = "aggregating"
    /\ domains' = ds
    /\ merge_requests' = <<>>
    /\ aggregated' = NotReturned
    /\ enriched' = NotReturned
    /\ overtaken' = FALSE
    /\ UNCHANGED <<raw, decoded, signals, page>>

(* One future of the fan-out in flight comes back with `resp` and runs to  *)
(* its end: a fetch_merge_requests_helper while aggregating, a             *)
(* fetch_merge_request while enriching.                                    *)
Complete(i, resp, out) ==
    /\ tasks[i].pc = "sent"
    /\ tasks' = [tasks EXCEPT ![i] = completed(@, resp, out)]
    /\ overtaken' = (overtaken \/ \E j \in 1..(i - 1) : tasks[j].pc = "sent")
    /\ UNCHANGED <<phase, domains, merge_requests, aggregated, enriched,
                   CLIENT, built, raw, decoded, signals, page>>

ListingCompletes(i, resp) ==
    /\ phase = "aggregating"
    /\ Complete(i, resp, fetch_merge_requests_helper(resp))

DetailCompletes(i, resp) ==
    /\ phase = "enriching"
    /\ Complete(i, resp, fetch_merge_request(resp))

(* join_all(futures).await is Ready and fetch_merge_requests returns. *)
ReturnFetchMergeRequests ==
    /\ phase = "aggregating"
    /\ join_all_ready(tasks)
    /\ aggregated' = fetch_merge_requests(join_all_output(tasks))
    /\ phase' = "aggregated"
    /\ UNCHANGED <<domains, tasks, merge_requests, enriched, CLIENT, built,
                   overtaken, raw, decoded, signals, page>>

(* `if let Ok(merge_requests) = merge_requests_result()`: the handler      *)
(* calls fetch_merge_requests_with_full_data(.., &merge_requests).         *)
CallFetchMergeRequestsWithFullData ==
    /\ phase = "aggregated"
    /\ aggregated.ok
    /\ Len(aggregated.val) <= MaxItems
    /\ LET mrs == aggregated.val
           l == launch([i \in DOMAIN mrs |-> detail_request(mrs[i])], CLIENT, built)
       IN  /\ merge_requests' = mrs
           /\ tasks' = l.tasks
           /\ CLIENT' = l.cell
           /\ built' = l.built
    /\ phase' = "enriching"
    /\ domains' = <<>>
    /\ overtaken' = FALSE
    /\ UNCHANGED <<aggregated, enriched, raw, decoded, signals, page>>

(* join_all(futures).await is Ready and                                    *)
(* fetch_merge_requests_with_full_data returns.                            *)
ReturnFetchMergeRequestsWithFullData ==
    /\ phase = "enriching"
    /\ join_all_ready(tasks)
    /\ enriched' = fetch_merge_requests_with_full_data(merge_requests,
                                                       join_all_output(tasks))
    /\ phase' = "enriched"
    /\ UNCHANGED <<domains, tasks, merge_requests, aggregated, CLIENT, built,
                   overtaken, raw, decoded, signals, page>>

(* The spawned task of the handler ends: after a failed aggregation, or    *)
(* after enrichment (or with a list longer than the model enriches).       *)
EndCycle ==
    /\ \/ phase = "enriched"
       \/ phase = "aggregated" /\ (~aggregated.ok \/ Len(aggregated.val) > MaxItems)
    /\ phase' = "idle"
    /\ domains' = <<>>
    /\ tasks' = <<>>
    /\ merge_requests' = <<>>
    /\ aggregated' = NotReturned
    /\ enriched' = NotReturned
    /\ overtaken' = FALSE
    /\ UNCHANGED <<CLIENT, built, raw, decoded, signals, page>>

Next ==
    \/ \E ds \in DomainLists : CallFetchMergeRequests(ds)
    \/ \E i \in DOMAIN tasks : \E resp \in ListingResponses : ListingCompletes(i, resp)
    \/ ReturnFetchMergeRequests
    \/ CallFetchMergeRequestsWithFullData
    \/ \E i \in DOMAIN tasks : \E resp \in DetailResponses : DetailCompletes(i, resp)
    \/ ReturnFetchMergeRequestsWithFullData
    \/ EndCycle

Spec == Init /\ [][Next]_vars

-----------------------------------------------------------------------------
(* The decoders alone.                                                     *)

DecodeInit ==
    /\ phase = "idle"
    /\ domains = <<>>
    /\ tasks = <<>>
    /\ merge_requests = <<>>
    /\ aggregated = NotReturned
    /\ enriched = NotReturned
    /\ CLIENT = None
    /\ built = 0
    /\ overtaken = FALSE
    /\ raw \in WireMergeRequests
    /\ decoded = NotDecoded
    /\ gitlab_url = initial_gitlab_url
    /\ private_token = initial_private_token
    /\ query = initial_query
    /\ handlers = <<>>
    /\ merge_requests_result = initial_merge_requests_result

(* A listing request comes back 200 with the payload as its one element. *)
DecodeListing ==
    /\ decoded.stage = "raw"
    /\ decoded' = [stage |-> "listing",
                   out |-> fetch_merge_requests_helper(Response(TRUE, 200, Array(<<raw>>)))]
    /\ UNCHANGED <<phase, domains, tasks, merge_requests, aggregated, enriched,
                   CLIENT, built, overtaken, raw, signals, page>>

(* A detail request comes back 200 with the payload. *)
DecodeDetail ==
    /\ decoded.stage = "raw"
    /\ decoded' = [stage |-> "detail",
                   out |-> fetch_merge_request(Response(TRUE, 200, Object(raw)))]
    /\ UNCHANGED <<phase, domains, tasks, merge_requests, aggregated, enriched,
                   CLIENT, built, overtaken, raw, signals, page>>

DecodeNext == DecodeListing \/ DecodeDetail

DecodeSpec == DecodeInit /\ [][DecodeNext]_vars

-----------------------------------------------------------------------------
(* Properties of the aggregation.                                          *)

Li(i) == tasks[i].out.val
AllListingsSucceeded == \A i \in DOMAIN tasks : tasks[i].out.ok
RECURSIVE Offset(_)
Offset(i) == IF i <= 1 THEN 0 ELSE Offset(i - 1) + Len(Li(i - 1))

(* C1: when every listing request of an aggregation succeeded, with lists  *)
(* L1..LN (request i being the one of domain i), the returned sequence is  *)
(* L1 ++ ... ++ LN: list i occupies the positions after those of lists     *)
(* 1..i-1, in its own order, and nothing else is returned; whatever the    *)
(* order the requests completed in.                                        *)
C1_AggregateIsConcatenation ==
    (phase = "aggregated" /\ AllListingsSucceeded) =>
        /\ Len(tasks) = Len(domains)
        /\ \A i \in DOMAIN tasks : tasks[i].req.key = <<domains[i].value>>
        /\ aggregated.ok
        /\ Len(aggregated.val) = Offset(Len(tasks) + 1)
        /\ \A i \in DOMAIN tasks : \A j \in DOMAIN Li(i) :
               aggregated.val[Offset(i) + j] = Li(i)[j]

(* C1 witness: two domains, the second request completed first; the first  *)
(* list holds two different items, the second list differs from it and     *)
(* holds an item of the first again.                                       *)
C1_Witness ==
    /\ phase = "aggregated"
    /\ aggregated.ok
    /\ Len(tasks) = 2
    /\ overtaken
    /\ Len(Li(1)) = 2
    /\ Li(1)[1] # Li(1)[2]
    /\ Len(Li(2)) = 1
    /\ Li(2)[1] = Li(1)[1]
    /\ Len(aggregated.val) = 3

(* C2: when at least one listing request of an aggregation failed, the     *)
(* aggregation returns an error, that of a failed request, and carries no  *)
(* merge request.                                                          *)
C2_AnyFailureFailsAll ==
    (phase = "aggregated" /\ ~AllListingsSucceeded) =>
        /\ ~aggregated.ok
        /\ aggregated.val = <<>>
        /\ \E i \in DOMAIN tasks : ~tasks[i].out.ok /\ aggregated.err = tasks[i].out.err

(* C2 witness: of two requests the first brought a list of two items and   *)
(* the second failed; the aggregation has returned.                        *)
C2_Witness ==
    /\ phase = "aggregated"
    /\ Len(tasks) = 2
    /\ tasks[1].out.ok
    /\ Len(Li(1)) = 2
    /\ ~tasks[2].out.ok
    /\ tasks[2].out.err = DecodeFailed

-----------------------------------------------------------------------------
(* Properties of the enrichment.                                           *)

(* The detail request came back, with a success status and a body that     *)
(* decodes.                                                                *)
DetailSucceeded(resp) ==
    resp.net /\ is_success(resp.status) /\ json_MergeRequest(resp.body).ok
FreshDetail(resp) == json_MergeRequest(resp.body).val[1]

(* C3: the enrichment of K items returns K items; item i is the decoded    *)
(* detail when request i succeeded and decoded, and the input item i when  *)
(* it did not.                                                             *)
C3_EnrichIsPerSlot ==
    phase = "enriched" =>
        /\ Len(tasks) = Len(merge_requests)
        /\ Len(enriched.val) = Len(merge_requests)
        /\ \A i \in DOMAIN merge_requests :
               enriched.val[i] = IF DetailSucceeded(tasks[i].resp)
                                 THEN FreshDetail(tasks[i].resp)
                                 ELSE merge_requests[i]

(* C3 witness: three items, completed out of launch order; the first was   *)
(* upgraded, the second kept after a failure, and the two differ.          *)
C3_Witness ==
    /\ phase = "enriched"
    /\ Len(merge_requests) = 3
    /\ overtaken
    /\ DetailSucceeded(tasks[1].resp)
    /\ enriched.val[1] # merge_requests[1]
    /\ ~DetailSucceeded(tasks[2].resp)
    /\ enriched.val[2] = merge_requests[2]
    /\ merge_requests[1] # merge_requests[2]

(* C4: the enrichment returns Ok whatever its requests came to. *)
C4_EnrichNeverFails ==
    phase = "enriched" => (enriched.ok /\ enriched.err = NoError)

(* C4 witness: three items whose requests all failed, one by the           *)
(* transport, one by the status, one by the decoding.                      *)
C4_Witness ==
    /\ phase = "enriched"
    /\ Len(tasks) = 3
    /\ \A i \in DOMAIN tasks : ~tasks[i].out.ok
    /\ {tasks[i].out.err.kind : i \in DOMAIN tasks} = {"Network", "BadStatus", "Decode"}
    /\ enriched.ok
    /\ enriched.val = merge_requests

Identity(merge_request) == <<merge_request.project_id, merge_request.iid>>

(* C5 as claimed: whatever the detail endpoint answers, the output item    *)
(* at a position has the identity pair (project_id, iid) of the input item *)
(* at that position.                                                       *)
C5_IdentityKeptForEveryResponse ==
    phase = "enriched" =>
        \A i \in DOMAIN merge_requests :
            Identity(enriched.val[i]) = Identity(merge_requests[i])

(* C5 as amended: every detail request is addressed with the identity pair *)
(* of its input item; the output item has the pair of the input item when  *)
(* the request failed, and the pair the decoded response carries when it   *)
(* succeeded.  So the pair is kept whenever the remote answers with the    *)
(* merge request it was asked for.                                         *)
C5_IdentityKeptWhenRemoteAnswersTheRequest ==
    phase = "enriched" =>
        \A i \in DOMAIN merge_requests :
            /\ tasks[i].req.key = Identity(merge_requests[i])
            /\ Identity(enriched.val[i]) =
                   IF DetailSucceeded(tasks[i].resp)
                   THEN Identity(FreshDetail(tasks[i].resp))
                   ELSE Identity(merge_requests[i])
            /\ (DetailSucceeded(tasks[i].resp)
                    /\ Identity(FreshDetail(tasks[i].resp)) = tasks[i].req.key)
                 => Identity(enriched.val[i]) = Identity(merge_requests[i])

(* C5 witness: two items of different identity, each upgraded by a         *)
(* response that carries the pair it was asked for.                        *)
C5_Witness ==
    /\ phase = "enriched"
    /\ Len(merge_requests) = 2
    /\ Identity(merge_requests[1]) # Identity(merge_requests[2])
    /\ \A i \in DOMAIN merge_requests :
           /\ DetailSucceeded(tasks[i].resp)
           /\ Identity(FreshDetail(tasks[i].resp)) = tasks[i].req.key
           /\ enriched.val[i] # merge_requests[i]

-----------------------------------------------------------------------------
(* Properties of both fan-outs.                                            *)

Launched == IF phase \in {"aggregating", "aggregated"} THEN Len(domains)
            ELSE IF phase \in {"enriching", "enriched"} THEN Len(merge_requests)
            ELSE 0

(* C6: a fan-out holds one request per domain or item from its call on;    *)
(* while it has not returned, each request is in flight or completed (a    *)
(* failure of one leaves the others as they are); when it has returned,    *)
(* every one of its requests has completed.                                *)
C6_FanOutWaitsForAll ==
    /\ Len(tasks) = Launched
    /\ \A i \in DOMAIN tasks :
           /\ tasks[i].pc \in {"sent", "done"}
           /\ tasks[i].pc = "done" <=> tasks[i].resp # NoResponse
    /\ phase \in {"aggregated", "enriched"} =>
           \A i \in DOMAIN tasks : tasks[i].pc = "done"

(* C6 witness: an aggregation of two requests has returned its error; the  *)
(* second request completed, and failed, while the first was in flight,    *)
(* and the first has completed, successfully, before the return.           *)
C6_Witness ==
    /\ phase = "aggregated"
    /\ Len(tasks) = 2
    /\ overtaken
    /\ ~tasks[2].out.ok
    /\ tasks[1].pc = "done"
    /\ tasks[1].out.ok
    /\ ~aggregated.ok

(* C9: the body of a response is decoded only when the request came back   *)
(* with a success status; a response with another status makes the error   *)
(* of that status, whatever its body, and its body is not decoded.         *)
C9_BodyDecodedOnlyOnSuccess ==
    \A i \in DOMAIN tasks :
        tasks[i].pc = "done" =>
            /\ tasks[i].out.parsed => (tasks[i].resp.net /\ is_success(tasks[i].resp.status))
            /\ (tasks[i].resp.net /\ ~is_success(tasks[i].resp.status)) =>
                   /\ ~tasks[i].out.ok
                   /\ tasks[i].out.err = BadStatus(tasks[i].resp.status)
                   /\ ~tasks[i].out.parsed

(* C9 witness: a listing request came back 404 with a well-formed listing  *)
(* as its body, and its outcome is the error of status 404; its sibling    *)
(* came back 200 and was decoded.                                          *)
C9_Witness ==
    /\ phase = "aggregating"
    /\ Len(tasks) = 2
    /\ tasks[1].pc = "done"
    /\ tasks[1].resp = Response(TRUE, 404, Array(<<Summary(1, 1)>>))
    /\ tasks[1].out.err = BadStatus(404)
    /\ ~tasks[1].out.parsed
    /\ tasks[2].pc = "done"
    /\ tasks[2].out.ok
    /\ tasks[2].out.parsed

(* C10: at most one client is ever built; it is built by the first         *)
(* request launched, every request of every fan-out holds it, and the      *)
(* OnceLock, once set, keeps its value.                                    *)
C10_OneClient ==
    /\ [](/\ built <= 1
          /\ (CLIENT = None) <=> (built = 0)
          /\ CLIENT # None => CLIENT = Some(1)
          /\ \A i \in DOMAIN tasks : CLIENT = Some(tasks[i].client))
    /\ [][CLIENT # None => CLIENT' = CLIENT]_vars

(* C10 witness: the second fan-out of a cycle has two requests in flight   *)
(* at once, after the requests of the first fan-out, and one client was    *)
(* built.                                                                  *)
C10_Witness ==
    /\ phase = "enriching"
    /\ Len(tasks) >= 2
    /\ \A i \in DOMAIN tasks : tasks[i].pc = "sent" /\ tasks[i].client = 1
    /\ built = 1

-----------------------------------------------------------------------------
(* Properties of the decoders (DecodeSpec).                                *)

HasPipeline(w) == w.head_pipeline.k = "obj"
RawPipeline == raw.head_pipeline.v[1]
DecodedMergeRequest == decoded.out.val[1]
DecodedPipeline == DecodedMergeRequest.head_pipeline[1]

(* The payload gives no other cause of a decode error than its enumeration *)
(* values: the keys of both durations are there.                           *)
DurationKeysPresent(w) ==
    HasPipeline(w) =>
        /\ w.head_pipeline.v[1].duration.k # "absent"
        /\ w.head_pipeline.v[1].queued_duration.k # "absent"

(* C7: a listing or detail response whose payload holds, for the lifecycle *)
(* state, the merge status or the pipeline status, a string that is no     *)
(* name of the enumeration decodes, and the value decoded for it is the    *)
(* Unknown variant.                                                        *)
C7_UnrecognisedValuesDecodeToUnknown ==
    (decoded.stage # "raw" /\ DurationKeysPresent(raw)) =>
        /\ decoded.out.ok
        /\ raw.state \notin DOMAIN State => DecodedMergeRequest.state = "Unknown"
        /\ raw.detailed_merge_status \notin DOMAIN MergeStatus =>
               DecodedMergeRequest.detailed_merge_status = "Unknown"
        /\ (HasPipeline(raw) /\ RawPipeline.status \notin DOMAIN PipelineStatus) =>
               DecodedPipeline.status = "Unknown"

(* What holds of C7: with a lifecycle state the program knows, any merge   *)
(* status and any pipeline status decode, the unrecognised to Unknown.     *)
MergeAndPipelineStatusDecodeToUnknown ==
    (decoded.stage # "raw" /\ DurationKeysPresent(raw) /\ raw.state \in DOMAIN State) =>
        /\ decoded.out.ok
        /\ raw.detailed_merge_status \notin DOMAIN MergeStatus =>
               DecodedMergeRequest.detailed_merge_status = "Unknown"
        /\ (HasPipeline(raw) /\ RawPipeline.status \notin DOMAIN PipelineStatus) =>
               DecodedPipeline.status = "Unknown"

(* And an unrecognised lifecycle state is a decode error of the fetch. *)
UnrecognisedStateFailsTheFetch ==
    (decoded.stage # "raw" /\ raw.state \notin DOMAIN State) =>
        (~decoded.out.ok /\ decoded.out.err = DecodeFailed)

(* C8: a payload whose pipeline has no `duration` key or no                *)
(* `queued_duration` key decodes, and the duration decoded for a missing   *)
(* key is zero.                                                            *)
C8_MissingDurationDecodesToZero ==
    (/\ decoded.stage # "raw"
     /\ raw.state \in DOMAIN State
     /\ HasPipeline(raw)
     /\ "absent" \in {RawPipeline.duration.k, RawPipeline.queued_duration.k}) =>
        /\ decoded.out.ok
        /\ RawPipeline.duration.k = "absent" => DecodedPipeline.duration = 0
        /\ RawPipeline.queued_duration.k = "absent" => DecodedPipeline.queued_duration = 0

(* What holds of C8: a duration key that is present with null decodes to   *)
(* zero, and one with a number of seconds to that number.                  *)
NullDurationDecodesToZero ==
    (/\ decoded.stage # "raw"
     /\ raw.state \in DOMAIN State
     /\ HasPipeline(raw)
     /\ DurationKeysPresent(raw)) =>
        /\ decoded.out.ok
        /\ DecodedPipeline.duration = RawPipeline.duration.v
        /\ DecodedPipeline.queued_duration = RawPipeline.queued_duration.v
        /\ RawPipeline.duration.k = "null" => DecodedPipeline.duration = 0

(* And a missing duration key is a decode error of the fetch. *)
MissingDurationFailsTheFetch ==
    (/\ decoded.stage # "raw"
     /\ HasPipeline(raw)
     /\ "absent" \in {RawPipeline.duration.k, RawPipeline.queued_duration.k}) =>
        (~decoded.out.ok /\ decoded.out.err = DecodeFailed)

-----------------------------------------------------------------------------
(* The requests of the aggregation: the page's inputs change the signals,  *)
(* the Query button reads them and calls fetch_merge_requests.             *)

GitlabUrls == {initial_gitlab_url, "https://git.example.org/api/v4"}
PrivateTokens == {initial_private_token, "glpat-1"}
Sorts == {"Asc", "Desc"}
StateOptions == {None, Some("Opened")}
WipOptions == {None, Some("Yes")}

RequestAuthorDomains ==
    AuthorDomains \cup {AuthorUsername(<<"b", "o", "b", ".", "r">>)}
RequestProjectDomains ==
    ProjectDomains \cup {ProjectPath(<<"a", "-", "b", "/", "c", "_", "d">>)}
RequestDomainLists ==
    {authors \o projects :
        authors \in SeqsUpTo(RequestAuthorDomains, MaxDomains),
        projects \in SeqsUpTo(RequestProjectDomains, MaxDomains)}
    \cap SeqsUpTo(RequestAuthorDomains \cup RequestProjectDomains, MaxDomains)

(* oninput of "GitLab Url": *gitlab_url.write() = event.value() *)
InputGitlabUrl(value) ==
    /\ gitlab_url' = value
    /\ UNCHANGED <<phase, domains, tasks, merge_requests, aggregated, enriched,
                   CLIENT, built, overtaken, raw, decoded,
                   private_token, query, page>>

(* oninput of "Private Token": *private_token.write() = event.value() *)
InputPrivateToken(value) ==
    /\ private_token' = value
    /\ UNCHANGED <<phase, domains, tasks, merge_requests, aggregated, enriched,
                   CLIENT, built, overtaken, raw, decoded,
                   gitlab_url, query, page>>

(* onchange of "Sort": query.write().sort = serde_json::from_str(..).unwrap() *)
ChangeSort(value) ==
    /\ query' = [query EXCEPT !.sort = value]
    /\ UNCHANGED <<phase, domains, tasks, merge_requests, aggregated, enriched,
                   CLIENT, built, overtaken, raw, decoded,
                   gitlab_url, private_token, page>>

(* onchange of "State": query.write().state = serde_json::from_str(..).ok() *)
ChangeState(value) ==
    /\ query' = [query EXCEPT !.state = value]
    /\ UNCHANGED <<phase, domains, tasks, merge_requests, aggregated, enriched,
                   CLIENT, built, overtaken, raw, decoded,
                   gitlab_url, private_token, page>>

(* onchange of "Wip": query.write().wip = serde_json::from_str(..).ok() *)
ChangeWip(value) ==
    /\ query' = [query EXCEPT !.wip = value]
    /\ UNCHANGED <<phase, domains, tasks, merge_requests, aggregated, enriched,
                   CLIENT, built, overtaken, raw, decoded,
                   gitlab_url, private_token, page>>

RequestNext ==
    \/ \E value \in GitlabUrls : InputGitlabUrl(value)
    \/ \E value \in PrivateTokens : InputPrivateToken(value)
    \/ \E value \in Sorts : ChangeSort(value)
    \/ \E value \in StateOptions : ChangeState(value)
    \/ \E value \in WipOptions : ChangeWip(value)
    \/ \E ds \in RequestDomainLists : CallFetchMergeRequests(ds)

RequestSpec == Init /\ [][RequestNext]_vars

-----------------------------------------------------------------------------
(* Properties of the listing requests.                                     *)

HexDigits == {Hex[n] : n \in DOMAIN Hex}
HexValue(d) == (CHOOSE n \in DOMAIN Hex : Hex[n] = d) - 1
CharOfByte(b) == CHOOSE c \in DOMAIN Byte : Byte[c] = b

(* Only letters, digits and %XX escapes. *)
IsPercentEncoded(cs) ==
    \A k \in DOMAIN cs :
        /\ cs[k] \in Alphanumeric \cup {"%"}
        /\ cs[k] = "%" =>
            /\ k + 2 <= Len(cs)
            /\ cs[k + 1] \in HexDigits
            /\ cs[k + 2] \in HexDigits

RECURSIVE percent_decode(_)
percent_decode(cs) ==
    IF cs = <<>> THEN <<>>
    ELSE IF Head(cs) = "%" /\ Len(cs) >= 3
         THEN <<CharOfByte(16 * HexValue(cs[2]) + HexValue(cs[3]))>>
              \o percent_decode(SubSeq(cs, 4, Len(cs)))
         ELSE <<Head(cs)>> \o percent_decode(Tail(cs))

OptionFields ==
    {"created_after", "created_before", "state", "updated_after", "updated_before", "wip"}
PlainFields == {"order_by", "scope", "sort"}
ParametersNamed(pairs, f) == {k \in DOMAIN pairs : pairs[k][1] = f}

(* The parameters are the fields of q: one per field that has a value,     *)
(* none for a field that is None.                                          *)
QueryCarried(pairs, q) ==
    /\ \A k \in DOMAIN pairs : pairs[k][1] \in OptionFields \cup PlainFields
    /\ \A f \in PlainFields :
        /\ Cardinality(ParametersNamed(pairs, f)) = 1
        /\ \A k \in ParametersNamed(pairs, f) : pairs[k][2] = snake_case[q[f]]
    /\ \A f \in OptionFields :
        IF q[f] = None
        THEN ParametersNamed(pairs, f) = {}
        ELSE /\ Cardinality(ParametersNamed(pairs, f)) = 1
             /\ \A k \in ParametersNamed(pairs, f) : pairs[k][2] = snake_case[q[f][1]]

RequestOfDomain(r, d, url, token, q) ==
    /\ r.method = "GET"
    /\ r.url.base = url
    /\ r.headers = {<<"PRIVATE-TOKEN", token>>}
    /\ QueryCarried(r.query, q)
    /\ d.kind = "AuthorUsername" =>
        /\ r.url.prefix = "/merge_requests"
        /\ r.url.segment = <<>>
        /\ r.url.suffix = ""
        /\ r.author_username = Some(d.value)
    /\ d.kind = "ProjectPath" =>
        /\ r.url.prefix = "/projects/"
        /\ r.url.suffix = "/merge_requests"
        /\ IsPercentEncoded(r.url.segment)
        /\ percent_decode(r.url.segment) = d.value
        /\ r.author_username = None

(* C11: a call of fetch_merge_requests puts exactly one request in flight  *)
(* per entry of the domain list, duplicates included, in list order: a GET *)
(* of {base}/merge_requests with the author_username parameter for an      *)
(* author, a GET of {base}/projects/{percent-encoded path}/merge_requests  *)
(* for a project; each with the caller's token in PRIVATE-TOKEN and the    *)
(* caller's query fields as parameters.                                    *)
C11_OneRequestPerDomain ==
    [][phase = "idle" /\ phase' = "aggregating" =>
        /\ Len(tasks') = Len(domains')
        /\ \A i \in DOMAIN tasks' :
            /\ tasks'[i].pc = "sent"
            /\ RequestOfDomain(tasks'[i].req, domains'[i],
                               gitlab_url, private_token, query)]_vars

C11_Witness ==
    /\ phase = "aggregating"
    /\ Len(domains) = 2
    /\ domains[1] = AuthorUsername(<<"a", "l", "i", "c", "e">>)
    /\ domains[2] = ProjectPath(<<"g", "r", "p", "/", "a", "p", "p">>)
    /\ tasks[1].req.author_username = Some(<<"a", "l", "i", "c", "e">>)
    /\ tasks[2].req.url.segment = <<"g", "r", "p", "%", "2", "F", "a", "p", "p">>
    /\ tasks[2].req.headers = {<<"PRIVATE-TOKEN", "glpat-1">>}
    /\ \E k \in DOMAIN tasks[2].req.query : tasks[2].req.query[k] = <<"state", "opened">>

-----------------------------------------------------------------------------
(* Properties of the items of one enrichment.                              *)

(* Where the item of a future stands. *)
ItemState(task) ==
    IF task.pc # "done" THEN "Pending"
    ELSE IF task.out.ok THEN "Upgraded" ELSE "KeptOriginal"

OneRequestPerItem(ts, inputs) ==
    /\ Len(ts) = Len(inputs)
    /\ \A i \in DOMAIN ts :
        /\ ts[i].sends = 1
        /\ ts[i].req.endpoint = "projects/merge_requests/iid"
        /\ ts[i].req.key = Identity(inputs[i])

(* C12: within one enrichment every item goes Pending -> Upgraded or       *)
(* Pending -> KeptOriginal and then stays: the enrichment starts with one  *)
(* detail request per item, addressed by the item's (project_id, iid);     *)
(* no step sends another one, a failed request included; an item that is   *)
(* Upgraded or KeptOriginal is not touched again.                          *)
C12_ItemStateMachine ==
    [][/\ (phase = "aggregated" /\ phase' = "enriching") =>
            /\ OneRequestPerItem(tasks', merge_requests')
            /\ \A i \in DOMAIN tasks' : ItemState(tasks'[i]) = "Pending"
       /\ (phase = "enriching" /\ phase' \in {"enriching", "enriched"}) =>
            /\ merge_requests' = merge_requests
            /\ OneRequestPerItem(tasks', merge_requests)
            /\ \A i \in DOMAIN tasks :
                /\ tasks'[i].req = tasks[i].req
                /\ ItemState(tasks[i]) = "Pending" =>
                       ItemState(tasks'[i]) \in {"Pending", "Upgraded", "KeptOriginal"}
                /\ ItemState(tasks[i]) # "Pending" => tasks'[i] = tasks[i]]_vars

C12_Witness ==
    /\ phase = "enriched"
    /\ Len(tasks) = 3
    /\ ItemState(tasks[1]) = "KeptOriginal"
    /\ tasks[1].resp = NetworkFailure
    /\ ItemState(tasks[2]) = "Upgraded"
    /\ ItemState(tasks[3]) = "KeptOriginal"
    /\ tasks[3].resp # NetworkFailure

-----------------------------------------------------------------------------
(* The fan-outs when a request may never come back.  Client::new() sets no *)
(* timeout and neither function wraps its join_all in one, so a request    *)
(* whose response never arrives leaves its future suspended at             *)
(* `.send().await` for good.                                               *)

(* The response to request i will never arrive. *)
Hang(i) ==
    /\ phase \in {"aggregating", "enriching"}
    /\ tasks[i].pc = "sent"
    /\ tasks' = [tasks EXCEPT ![i] = [@ EXCEPT !.pc = "hung"]]
    /\ UNCHANGED <<phase, domains, merge_requests, aggregated, enriched,
                   CLIENT, built, overtaken, raw, decoded, signals, page>>

(* What comes back, when something does: the content of a response does   *)
(* not matter here beyond failure or success.                              *)
LiveListingResponses ==
    {NetworkFailure,
     Response(TRUE, 404, Garbage),
     Response(TRUE, 200, Array(<<Summary(1, 1)>>))}
LiveDetailResponses ==
    {NetworkFailure,
     Response(TRUE, 200, Object(Detail(1, 1)))}

LiveNext ==
    \/ \E ds \in DomainLists : CallFetchMergeRequests(ds)
    \/ \E i \in DOMAIN tasks : \E resp \in LiveListingResponses : ListingCompletes(i, resp)
    \/ ReturnFetchMergeRequests
    \/ CallFetchMergeRequestsWithFullData
    \/ \E i \in DOMAIN tasks : \E resp \in LiveDetailResponses : DetailCompletes(i, resp)
    \/ ReturnFetchMergeRequestsWithFullData
    \/ EndCycle
    \/ \E i \in DOMAIN tasks : Hang(i)

(* A response that is going to arrive does arrive, and the executor polls  *)
(* a woken task: the spawned task runs on to its next await.               *)
Fairness ==
    /\ WF_vars(\E i \in DOMAIN tasks :
                   \E resp \in LiveListingResponses : ListingCompletes(i, resp))
    /\ WF_vars(\E i \in DOMAIN tasks :
                   \E resp \in LiveDetailResponses : DetailCompletes(i, resp))
    /\ WF_vars(ReturnFetchMergeRequests)
    /\ WF_vars(ReturnFetchMergeRequestsWithFullData)

LiveSpec == Init /\ [][LiveNext]_vars /\ Fairness

SomeRequestHangs == \E i \in DOMAIN tasks : tasks[i].pc = "hung"

(* C13: a fan-out with a request that never completes never returns,       *)
(* whatever became of its other requests: the call stays where it is with  *)
(* no result; and a fan-out in which no request hangs does return.         *)
C13_NoTimeout ==
    /\ [][SomeRequestHangs =>
            /\ phase' = phase
            /\ aggregated' = aggregated
            /\ enriched' = enriched
            /\ SomeRequestHangs']_vars
    /\ (phase = "aggregating") ~> (phase = "aggregated" \/ SomeRequestHangs)
    /\ (phase = "enriching") ~> (phase = "enriched" \/ SomeRequestHangs)

C13_Witness ==
    /\ phase = "enriching"
    /\ Len(tasks) = 2
    /\ tasks[1].pc = "hung"
    /\ tasks[2].pc = "done"
    /\ enriched = NotReturned

-----------------------------------------------------------------------------
(* Which error an aggregation returns.                                     *)

FailedListings == {i \in DOMAIN tasks : ~tasks[i].out.ok}
FirstFailedListing == CHOOSE i \in FailedListings : \A j \in FailedListings : i <= j

(* C14: an aggregation in which listing requests failed returns the error  *)
(* of the failed request of the earliest domain of the list, whichever     *)
(* request failed first in time.                                           *)
C14_FirstFailingDomainWins ==
    (phase = "aggregated" /\ FailedListings # {}) =>
        /\ ~aggregated.ok
        /\ tasks[FirstFailedListing].req.key = <<domains[FirstFailedListing].value>>
        /\ aggregated.err = tasks[FirstFailedListing].out.err

(* C14 witness: both requests failed, with different errors, the second    *)
(* before the first.                                                       *)
C14_Witness ==
    /\ phase = "aggregated"
    /\ Len(tasks) = 2
    /\ overtaken
    /\ FailedListings = {1, 2}
    /\ tasks[1].out.err = BadStatus(404)
    /\ tasks[2].out.err = Network
    /\ aggregated.err = BadStatus(404)

-----------------------------------------------------------------------------
(* The Query button.  Every click spawns a task that runs                  *)
(*     fetch_merge_requests(..).await, write, read,                        *)
(*     fetch_merge_requests_with_full_data(..).await, write                *)
(* on the one thread of the page, so a task runs alone between two awaits  *)
(* and the tasks of two clicks interleave at their awaits.  A fan-out is   *)
(* taken here in one step from its await to its return, with the           *)
(* responses of its requests chosen at the return.                         *)

MaxCycles == 2

CycleListingResponses ==
    {NetworkFailure,
     Response(TRUE, 404, Garbage),
     Response(TRUE, 200, Array(<<Summary(1, 1)>>))}
CycleDetailResponses ==
    {NetworkFailure,
     Response(TRUE, 200, Object(Detail(1, 1)))}
CycleDomainLists ==
    {<<author>> : author \in AuthorDomains}
    \cup {<<author, project>> : author \in AuthorDomains, project \in ProjectDomains}

Requests(ts) == [i \in DOMAIN ts |-> ts[i].req]

(* onclick of "Query": spawn(async move { .. }) runs up to the join_all of *)
(* fetch_merge_requests.                                                   *)
Click(ds) ==
    /\ Len(handlers) < MaxCycles
    /\ LET l == launch([i \in DOMAIN ds |->
                          listing_request(gitlab_url, private_token, query, ds[i])],
                       CLIENT, built)
       IN  /\ handlers' = Append(handlers,
                [pc |-> "aggregating", domains |-> ds, tasks |-> l.tasks,
                 sent |-> Requests(l.tasks),
                 aggregated |-> NotReturned, merge_requests |-> <<>>,
                 enriched |-> NotReturned, wrote |-> None,
                 overlapped |-> \E k \in DOMAIN handlers : handlers[k].pc # "done",
                 ended |-> 0])
           /\ CLIENT' = l.cell
           /\ built' = l.built
    /\ UNCHANGED <<phase, domains, tasks, merge_requests, aggregated, enriched,
                   overtaken, raw, decoded, signals, merge_requests_result>>

(* How many tasks have ended. *)
Ended == Cardinality({k \in DOMAIN handlers : handlers[k].pc = "done"})

(* Variant: the `if let` sees the signal as it was before the write. *)
write_then_read_stale(before, result) ==
    [merge_requests_result |-> map_err_to_string(result), read |-> before]

(* *merge_requests_result.write() = <result>.map_err(|e| e.to_string());   *)
(* if let Ok(merge_requests) = merge_requests_result() { .. }              *)
(* with no await in between: the read sees the value just written.         *)
write_then_read(before, result) ==
    LET written == map_err_to_string(result)
    IN  [merge_requests_result |-> written, read |-> written]

(* The task of click k resumes from fetch_merge_requests(..).await, the    *)
(* requests having come back with `resps`: it stores the result and, on    *)
(* Ok, runs up to the join_all of fetch_merge_requests_with_full_data.     *)
AggregationReturns(k, resps) ==
    /\ handlers[k].pc = "aggregating"
    /\ LET h == handlers[k]
           done == [i \in DOMAIN h.tasks |->
                      completed(h.tasks[i], resps[i], fetch_merge_requests_helper(resps[i]))]
           result == fetch_merge_requests(join_all_output(done))
           w == write_then_read(merge_requests_result, result)
           l == launch([i \in DOMAIN w.read.val |-> detail_request(w.read.val[i])],
                       CLIENT, built)
       IN  /\ join_all_ready(done)
           /\ merge_requests_result' = w.merge_requests_result
           /\ IF w.read.ok
              THEN /\ handlers' = [handlers EXCEPT ![k] =
                        [h EXCEPT !.pc = "enriching", !.aggregated = result,
                                  !.merge_requests = w.read.val, !.tasks = l.tasks,
                                  !.sent = @ \o Requests(l.tasks),
                                  !.wrote = Some(w.merge_requests_result)]]
                   /\ CLIENT' = l.cell
                   /\ built' = l.built
              ELSE /\ handlers' = [handlers EXCEPT ![k] =
                        [h EXCEPT !.pc = "done", !.aggregated = result, !.tasks = <<>>,
                                  !.wrote = Some(w.merge_requests_result),
                                  !.ended = Ended + 1]]
                   /\ UNCHANGED <<CLIENT, built>>
    /\ UNCHANGED <<phase, domains, tasks, merge_requests, aggregated, enriched,
                   overtaken, raw, decoded, signals>>

(* The task of click k resumes from                                        *)
(* fetch_merge_requests_with_full_data(..).await, stores the result and    *)
(* ends.                                                                   *)
EnrichmentReturns(k, resps) ==
    /\ handlers[k].pc = "enriching"
    /\ LET h == handlers[k]
           done == [i \in DOMAIN h.tasks |->
                      completed(h.tasks[i], resps[i], fetch_merge_request(resps[i]))]
           result == fetch_merge_requests_with_full_data(h.merge_requests,
                                                         join_all_output(done))
       IN  /\ join_all_ready(done)
           /\ merge_requests_result' = map_err_to_string(result)
           /\ handlers' = [handlers EXCEPT ![k] =
                [h EXCEPT !.pc = "done", !.enriched = result, !.tasks = <<>>,
                          !.wrote = Some(map_err_to_string(result)),
                          !.ended = Ended + 1]]
    /\ UNCHANGED <<phase, domains, tasks, merge_requests, aggregated, enriched,
                   CLIENT, built, overtaken, raw, decoded, signals>>

CycleNext ==
    \/ \E ds \in CycleDomainLists : Click(ds)
    \/ \E k \in DOMAIN handlers :
        \E resps \in [DOMAIN handlers[k].tasks -> CycleListingResponses] :
            AggregationReturns(k, resps)
    \/ \E k \in DOMAIN handlers :
        \E resps \in [DOMAIN handlers[k].tasks -> CycleDetailResponses] :
            EnrichmentReturns(k, resps)

CycleSpec == Init /\ [][CycleNext]_vars

-----------------------------------------------------------------------------
(* Properties of the Query cycles.                                         *)

DetailRequestsOf(h) ==
    SelectSeq(h.sent, LAMBDA r : r.endpoint = "projects/merge_requests/iid")

EnrichmentFollowsAggregation(h) ==
    /\ h.pc = "aggregating" => DetailRequestsOf(h) = <<>>
    /\ (h.pc = "enriching" \/ DetailRequestsOf(h) # <<>> \/ h.enriched # NotReturned) =>
        /\ h.aggregated.ok
        /\ h.merge_requests = h.aggregated.val
        /\ Len(DetailRequestsOf(h)) = Len(h.aggregated.val)
        /\ \A i \in DOMAIN h.aggregated.val :
            DetailRequestsOf(h)[i].key = Identity(h.aggregated.val[i])
    /\ (h.aggregated # NotReturned /\ ~h.aggregated.ok) =>
        /\ DetailRequestsOf(h) = <<>>
        /\ h.pc = "done"
        /\ h.enriched = NotReturned
        /\ h.wrote = Some(StoredErr(to_string(h.aggregated.err)))

(* C15: in every Query cycle the detail requests are sent only after the   *)
(* cycle's aggregation returned Ok, one per item of the list that          *)
(* aggregation returned, which is the list the enrichment is given; a      *)
(* cycle whose aggregation failed sends no detail request and ends by      *)
(* storing the aggregation's error in merge_requests_result.               *)
C15_EnrichmentFollowsAggregation ==
    /\ [](\A k \in DOMAIN handlers : EnrichmentFollowsAggregation(handlers[k]))
    /\ [][\A k \in DOMAIN handlers :
            (handlers[k].pc = "aggregating" /\ handlers'[k].pc = "done") =>
                /\ ~handlers'[k].aggregated.ok
                /\ merge_requests_result' =
                       StoredErr(to_string(handlers'[k].aggregated.err))]_vars

(* C15 witness: of two overlapping cycles the first is enriching the two   *)
(* items its aggregation returned, the second has ended on a failed        *)
(* aggregation whose error is stored.                                      *)
C15_Witness ==
    /\ Len(handlers) = 2
    /\ handlers[1].pc = "enriching"
    /\ Len(handlers[1].merge_requests) = 2
    /\ Len(DetailRequestsOf(handlers[1])) = 2
    /\ handlers[2].pc = "done"
    /\ Len(handlers[2].domains) = 2
    /\ handlers[2].aggregated = Fail(BadStatus(404))
    /\ merge_requests_result =
           StoredErr(<<"fetching merge requests failed with status", 404>>)

AllCyclesEnded ==
    /\ handlers # <<>>
    /\ \A k \in DOMAIN handlers : handlers[k].pc = "done"

(* C16 as claimed: when the cycle started last began while an earlier one  *)
(* was still awaiting, then once all have ended merge_requests_result is   *)
(* what the cycle started last stored.                                     *)
C16_LastStartedCycleWins ==
    (AllCyclesEnded /\ handlers[Len(handlers)].overlapped) =>
        merge_requests_result = handlers[Len(handlers)].wrote[1]

(* What the code does: merge_requests_result is what the cycle that ended  *)
(* last stored.                                                            *)
LastEndedCycleWins ==
    AllCyclesEnded =>
        \E k \in DOMAIN handlers :
            /\ handlers[k].ended = Len(handlers)
            /\ merge_requests_result = handlers[k].wrote[1]

(* The earlier cycle ended after the later one and its result is stored. *)
EarlierCycleOverwrites ==
    /\ Len(handlers) = 2
    /\ AllCyclesEnded
    /\ handlers[2].overlapped
    /\ handlers[1].ended = 2
    /\ handlers[2].wrote[1].ok
    /\ ~handlers[1].wrote[1].ok
    /\ merge_requests_result = handlers[1].wrote[1]

=============================================================================
